---- MODULE Spec2Model ----
(***************************************************************************)
(* Model of pyvaultlib: certificate-based credential lifecycle             *)
(* (certificate_util.py), scoped secret naming (secret_manager.py) and the *)
(* resolver facade (key_vault_service.py), driven by a caller such as      *)
(* run.py.                                                                 *)
(*                                                                         *)
(* Strings are sequences of one-character strings.  An Optional[str] is a  *)
(* sequence of length 0 (None) or 1 (the string).                          *)
(***************************************************************************)
EXTENDS Integers, Sequences, FiniteSets, TLC

VARIABLES
    disk,         \* paths of the files that exist in temporary storage
    written,      \* paths that hold exported key material
    nextTmp,      \* next unique name handed out by NamedTemporaryFile
    svc,          \* the KeyVaultService object held by the caller, or NoObj
    pc,           \* caller position: "idle", "have", "in_with", "left"
    last,         \* outcome of the last call made by the caller
    removeCount,  \* history: os.remove calls made by cleanup(), per path
    cleanupCalls, \* history: cleanup() calls on the object held
    sm,           \* a SecretManager built on its own, or NoObj
    probe         \* outcome of the last call on sm

vars == <<disk, written, nextTmp, svc, pc, last,
          removeCount, cleanupCalls, sm, probe>>

lifeVars == <<disk, written, nextTmp, svc, pc, last,
              removeCount, cleanupCalls>>

\* ------------------------------------------------------------------ bounds
MaxTmp == 2
MaxCleanups == 2
MaxLen == 2

\* ---------------------------------------------------------- python values
None == <<>>
Some(v) == <<v>>
NoObj == [kind |-> "none"]

\* "{x}" in an f-string: None is formatted as the text None
FormatStr(o) == IF o = None THEN <<"N","o","n","e">> ELSE o[1]

\* bool(x) of an Optional[str]: None and "" are falsy
Truthy(o) == o # None /\ Len(o[1]) > 0

UpperChar(c) ==
    CASE c = "a" -> "A" [] c = "b" -> "B" [] c = "p" -> "P" [] c = "r" -> "R"
      [] c = "d" -> "D" [] OTHER -> c
Upper(s) == [i \in 1..Len(s) |-> UpperChar(s[i])]

\* str.startswith
StartsWithIgnoreCase(s, p) ==
    Len(p) <= Len(s) /\ Upper(SubSeq(s, 1, Len(p))) = Upper(p)
StartsWithLenOnly(s, p) == Len(p) <= Len(s)
StartsWith(s, p) == Len(p) <= Len(s) /\ SubSeq(s, 1, Len(p)) = p

\* thumbprint.replace(" ", "")
RemoveSpaces(s) == SelectSeq(s, LAMBDA c : c # " ")

\* PowerShell -eq on strings compares without regard to case
PsEq(a, b) == Upper(a) = Upper(b)

\* --------------------------------------------------------- concrete inputs
s_svc == <<"s","v","c">>
s_other == <<"o","t","h","e","r">>
s_unknown_app == <<"u","n","k","n","o","w","n","_","a","p","p">>
s_PRD == <<"P","R","D">>
s_prd == <<"p","r","d">>
s_PRDX == <<"P","R","D","X">>
s_MySecret == <<"M","y","S","e","c","r","e","t">>
s_secret == <<"s","e","c","r","e","t">>
s_abc123 == <<"a","b","c","1","2","3">>
s_zzz == <<"z","z","z">>
s_kv1 == <<"k","v","1">>
s_tenant == <<"t","1">>
s_client == <<"c","1">>
s_pw == <<"p","w">>
s_thumbSpaced == <<"a","b"," ","1">>
s_thumbAbsent == <<"b","1">>

EnvNames == {"KEYVAULT_TENANT_ID", "KEYVAULT_CLIENT_ID", "KEYVAULT_THUMBPRINT",
             "KEYVAULT_NAME", "KEYVAULT_CERT_PASSWORD"}

\* Cert:\CurrentUser\My, by thumbprint
CertStore == { <<"A","B","1">> }

Paths == 1..MaxTmp

\* the five values read from the environment
EnvValues(var) ==
    CASE var = "KEYVAULT_TENANT_ID" -> {None, Some(<<>>), Some(s_tenant)}
      [] var = "KEYVAULT_CLIENT_ID" -> {None, Some(s_client)}
      [] var = "KEYVAULT_THUMBPRINT" ->
             {None, Some(s_thumbSpaced), Some(s_thumbAbsent)}
      [] var = "KEYVAULT_NAME" -> {None, Some(s_kv1)}
      [] OTHER -> {None, Some(<<>>), Some(s_pw)}

\* the process environment at the time of a construction
MkEnv(tenant, client, thumb, name, pw) ==
    [v \in EnvNames |->
        CASE v = "KEYVAULT_TENANT_ID" -> tenant
          [] v = "KEYVAULT_CLIENT_ID" -> client
          [] v = "KEYVAULT_THUMBPRINT" -> thumb
          [] v = "KEYVAULT_NAME" -> name
          [] OTHER -> pw]
Envs == { MkEnv(a, b, c, d, p) :
            a \in EnvValues("KEYVAULT_TENANT_ID"),
            b \in EnvValues("KEYVAULT_CLIENT_ID"),
            c \in EnvValues("KEYVAULT_THUMBPRINT"),
            d \in EnvValues("KEYVAULT_NAME"),
            p \in EnvValues("KEYVAULT_CERT_PASSWORD") }

\* a frame of the call chain: lib is ("pyvaultlib" in filename), stem is
\* os.path.splitext(os.path.basename(filename))[0]
LibFrame(stem) == [lib |-> TRUE, stem |-> stem]
AppFrame(stem) == [lib |-> FALSE, stem |-> stem]
Stacks == { <<LibFrame(<<"k">>), AppFrame(s_svc)>>,
            <<LibFrame(<<"k">>), AppFrame(s_other), AppFrame(s_svc)>>,
            <<LibFrame(<<"k">>), LibFrame(s_svc)>> }

\* the config_scope argument of KeyVaultService(...)
Scopes == {None, Some(<<>>), Some(s_PRD)}

\* the simple names asked for
SimpleNames == {s_MySecret, s_secret}

\* what the remote-store client can answer to get_secret(full_name)
FullName(app, scope, name) == app \o <<"-">> \o scope \o <<"-","-">> \o name
Records ==
    { [kind |-> "record", name |-> FullName(s_svc, s_PRD, s_MySecret),
       value |-> s_abc123, error |-> ""],
      [kind |-> "record", name |-> FullName(s_other, s_PRD, s_MySecret),
       value |-> s_zzz, error |-> ""],
      [kind |-> "record", name |-> FullName(s_svc, s_PRDX, s_secret),
       value |-> s_zzz, error |-> ""],
      [kind |-> "record", name |-> FullName(s_svc, s_prd, s_secret),
       value |-> s_zzz, error |-> ""],
      [kind |-> "record", name |-> s_svc \o <<"-">> \o s_PRD \o <<"-">>,
       value |-> s_zzz, error |-> ""] }
FetchErrors == {"ResourceNotFoundError", "ClientAuthenticationError",
                "ServiceRequestError"}
Responses ==
    Records
    \cup [kind : {"error"}, name : {<<>>}, value : {<<>>}, error : FetchErrors]

\* ------------------------------------------------------- secret_manager.py
FirstFrameStem(st) == st[1].stem
RECURSIVE get_calling_app_name(_)
get_calling_app_name(st) ==
    IF st = <<>> THEN s_unknown_app
    ELSE IF ~st[1].lib THEN st[1].stem
    ELSE get_calling_app_name(Tail(st))

SecretManager__init__NoCheck(st, config_scope) ==
    [err |-> "",
     obj |-> [kind |-> "SecretManager",
              config_scope |-> config_scope,
              prefix |-> get_calling_app_name(st) \o <<"-">>
                         \o FormatStr(config_scope) \o <<"-","-">>]]
SecretManager__init__(st, config_scope) ==
    IF ~Truthy(config_scope)
    THEN [err |-> "ValueError", obj |-> NoObj]
    ELSE [err |-> "",
          obj |-> [kind |-> "SecretManager",
                   config_scope |-> config_scope,
                   prefix |-> get_calling_app_name(st) \o <<"-">>
                              \o FormatStr(config_scope) \o <<"-","-">>]]

SecretManager_load(m, secret_properties) ==
    StartsWith(secret_properties.name, m.prefix)

SecretManager_get_value(m, secret) ==
    IF StartsWith(secret.name, m.prefix) THEN Some(secret.value) ELSE None

\* ------------------------------------------------------ certificate_util.py
\* The script looks the thumbprint up in the store and throws when it is absent;
\* psOk is whether the export and the write of the bytes then succeed.
PsCertFound(thumbprint) == \E t \in CertStore : PsEq(t, thumbprint)

\* NamedTemporaryFile(delete=False) creates the file before PowerShell runs.
WindowsCertCredential_export(thumbprint, psOk) ==
    LET path == nextTmp
        found == PsCertFound(thumbprint)
    IN  [files |-> {path},
         wrote |-> IF found /\ psOk THEN {path} ELSE {},
         path |-> path,
         err |-> IF ~found THEN "RuntimeError: Certificate not found."
                 ELSE IF ~psOk THEN "RuntimeError: PowerShell export failed"
                 ELSE ""]

\* credOk: whether CertificateCredential(...) can be built from the file
WindowsCertCredential__init__(tenant_id, client_id, thumbprint, password, psOk, credOk) ==
    LET thumb == RemoveSpaces(thumbprint)
        ex == WindowsCertCredential_export(thumb, psOk)
    IN  IF ex.err # ""
        THEN [err |-> ex.err, stage |-> "export", obj |-> NoObj,
              files |-> ex.files, wrote |-> ex.wrote]
        ELSE IF ~credOk
        THEN [err |-> "ValueError: credential", stage |-> "credential", obj |-> NoObj,
              files |-> ex.files, wrote |-> ex.wrote]
        ELSE [err |-> "", stage |-> "",
              obj |-> [kind |-> "WindowsCertCredential",
                       tenant_id |-> tenant_id, client_id |-> client_id,
                       thumbprint |-> thumb, password |-> password,
                       _pfx_path |-> ex.path,
                       credential |-> [tenant_id |-> tenant_id,
                                       client_id |-> client_id,
                                       certificate_path |-> ex.path,
                                       password |-> IF Len(password) > 0
                                                    THEN Some(password) ELSE None]],
              files |-> ex.files, wrote |-> ex.wrote]

\* os.remove(path)
os_remove(d, path) ==
    IF path \in d THEN [disk |-> d \ {path}, removed |-> {path}, err |-> ""]
    ELSE [disk |-> d, removed |-> {}, err |-> "FileNotFoundError"]

WindowsCertCredential_cleanupUnguarded(w, d) == os_remove(d, w._pfx_path)
WindowsCertCredential_cleanup(w, d) ==
    IF w._pfx_path \in d THEN os_remove(d, w._pfx_path)
    ELSE [disk |-> d, removed |-> {}, err |-> ""]

\* ----------------------------------------------------- key_vault_service.py
\* os.getenv(var) in the environment e; the warnings it logs change no state
KeyVaultService_try_get_env(e, var, allow_empty) == e[var]

\* not all([tenant_id, client_id, thumbprint, vault_name])
MandatoryNoVault(tenant_id, client_id, thumbprint, vault_name) ==
    /\ Truthy(tenant_id)
    /\ Truthy(client_id)
    /\ Truthy(thumbprint)
MandatoryPresent(tenant_id, client_id, thumbprint, vault_name) ==
    /\ Truthy(tenant_id)
    /\ Truthy(client_id)
    /\ Truthy(thumbprint)
    /\ Truthy(vault_name)

\* password or ""
OrEmpty(password) == IF Truthy(password) THEN password[1] ELSE <<>>

NoOutcome == [err |-> "", stage |-> "", obj |-> NoObj, files |-> {}, wrote |-> {}]

\* clientOk: whether SecretClient(vault_url, credential) can be built
KeyVaultService__init__(e, stack, config_scope, psOk, credOk, clientOk) ==
    LET tenant_id == KeyVaultService_try_get_env(e, "KEYVAULT_TENANT_ID", FALSE)
        client_id == KeyVaultService_try_get_env(e, "KEYVAULT_CLIENT_ID", FALSE)
        thumbprint == KeyVaultService_try_get_env(e, "KEYVAULT_THUMBPRINT", FALSE)
        vault_name == KeyVaultService_try_get_env(e, "KEYVAULT_NAME", FALSE)
        password == KeyVaultService_try_get_env(e, "KEYVAULT_CERT_PASSWORD", TRUE)
    IN  IF ~MandatoryPresent(tenant_id, client_id, thumbprint, vault_name)
        THEN [NoOutcome EXCEPT
                 !.err = "Exception: Missing Key Vault configuration settings.",
                 !.stage = "config"]
        ELSE
        LET w == WindowsCertCredential__init__(tenant_id[1], client_id[1],
                     thumbprint[1], OrEmpty(password), psOk, credOk)
            m == SecretManager__init__(
                     <<LibFrame(<<"k","e","y","_","v","a","u","l","t">>)>> \o stack,
                     config_scope)
        IN  IF w.err # "" THEN w
            ELSE IF ~clientOk
            THEN [w EXCEPT !.err = "ValueError: client", !.stage = "client",
                           !.obj = NoObj]
            ELSE IF m.err # ""
            THEN [w EXCEPT !.err = m.err, !.stage = "scope", !.obj = NoObj]
            ELSE [w EXCEPT !.obj =
                     [kind |-> "KeyVaultService",
                      _cert_wrapper |-> w.obj,
                      secret_client |->
                          [vault_url |-> <<"https://">> \o FormatStr(vault_name)
                                         \o <<".vault.azure.net">>,
                           credential |-> w.obj.credential],
                      secret_manager |-> m.obj]]

\* hasattr(self, "_cert_wrapper")
KeyVaultService_cleanup(s, d) ==
    IF "_cert_wrapper" \in DOMAIN s
    THEN WindowsCertCredential_cleanup(s._cert_wrapper, d)
    ELSE [disk |-> d, removed |-> {}, err |-> ""]

\* the value returned by get_secret and whether it raised or logged
KeyVaultService_get_secretNoCatch(s, secret_name, resp) ==
    LET full_name == s.secret_manager.prefix \o secret_name
    IN  IF resp.kind = "error"
        THEN [req |-> full_name, ret |-> None, err |-> resp.error, logged |-> FALSE]
        ELSE [req |-> full_name, ret |-> Some(resp.value), err |-> "",
              logged |-> FALSE]
KeyVaultService_get_secret(s, secret_name, resp) ==
    LET full_name == s.secret_manager.prefix \o secret_name
    IN  IF resp.kind = "error"
        THEN [req |-> full_name, ret |-> None, err |-> "", logged |-> TRUE]
        ELSE IF SecretManager_load(s.secret_manager, [name |-> resp.name])
        THEN [req |-> full_name,
              ret |-> SecretManager_get_value(s.secret_manager, resp),
              err |-> "", logged |-> FALSE]
        ELSE [req |-> full_name, ret |-> None, err |-> "", logged |-> FALSE]

KeyVaultService__enter__(s) == s

KeyVaultService__exit__Skip(s, d) == [disk |-> d, removed |-> {}, err |-> ""]
KeyVaultService__exit__(s, d) == KeyVaultService_cleanup(s, d)

\* ------------------------------------------------------------------ state
NoProbe == [op |-> "none", app |-> <<>>, scope |-> None, err |-> "", arg |-> <<>>,
            full |-> <<>>, ok |-> FALSE, ret |-> None]

NoEnv == [v \in EnvNames |-> None]
NoCall == [op |-> "none", env |-> NoEnv, fault |-> "none", err |-> "", stage |-> "", files |-> {}, scope |-> None,
           arg |-> <<>>, resp |-> [kind |-> "none"], req |-> <<>>, ret |-> None,
           logged |-> FALSE, afterFailure |-> FALSE, kind |-> ""]

Init ==
    /\ disk = {}
    /\ written = {}
    /\ nextTmp = 1
    /\ svc = NoObj
    /\ pc = "idle"
    /\ last = NoCall
    /\ removeCount = [p \in Paths |-> 0]
    /\ cleanupCalls = 0
    /\ sm = NoObj
    /\ probe = NoProbe

\* The collaborator that fails during a construction, if one does: the
\* PowerShell export, CertificateCredential(...) or SecretClient(...).
Faults == {"none", "export", "credential", "client"}

\* what the rest of a construction depends on, once the environment is read:
\* the call chain, the scope argument and what the collaborators answer.
\* A construction that stops at the configuration check uses none of them.
ConstructInputs(e) ==
    IF \E v \in EnvNames \ {"KEYVAULT_CERT_PASSWORD"} : ~Truthy(e[v])
    THEN { [stack |-> <<>>, config_scope |-> None, fault |-> "none"] }
    ELSE [stack : Stacks, config_scope : Scopes, fault : Faults]

\* service = KeyVaultService(config_scope)
Construct ==
    /\ pc = "idle"
    /\ nextTmp <= MaxTmp
    /\ \E e \in Envs :
       \E i \in ConstructInputs(e) :
         LET r == KeyVaultService__init__(e, i.stack, i.config_scope,
                      i.fault # "export", i.fault # "credential",
                      i.fault # "client")
         IN  /\ disk' = disk \cup r.files
             /\ written' = written \cup r.wrote
             /\ nextTmp' = nextTmp + Cardinality(r.files)
             /\ svc' = r.obj
             /\ pc' = IF r.err = "" THEN "have" ELSE "idle"
             /\ last' = [NoCall EXCEPT !.op = "init", !.err = r.err,
                                       !.stage = r.stage, !.files = r.files,
                                       !.scope = i.config_scope, !.env = e,
                                       !.fault = i.fault]
    /\ cleanupCalls' = 0
    /\ UNCHANGED <<removeCount, sm, probe>>

\* with service: (run.py line 3)
Enter ==
    /\ pc = "have"
    /\ svc' = KeyVaultService__enter__(svc)
    /\ pc' = "in_with"
    /\ last' = [NoCall EXCEPT !.op = "enter"]
    /\ UNCHANGED <<disk, written, nextTmp, removeCount,
                   cleanupCalls, sm, probe>>

\* service.get_secret(secret_name)
GetSecret ==
    /\ pc \in {"have", "in_with", "left"}
    /\ \E secret_name \in SimpleNames, resp \in Responses :
         LET r == KeyVaultService_get_secret(svc, secret_name, resp)
         IN  last' = [NoCall EXCEPT !.op = "get", !.err = r.err, !.arg = secret_name,
                          !.resp = resp, !.req = r.req, !.ret = r.ret,
                          !.logged = r.logged,
                          !.afterFailure = (last.op = "get" /\ last.resp.kind = "error")]
    /\ UNCHANGED <<disk, written, nextTmp, svc, pc, removeCount,
                   cleanupCalls, sm, probe>>

AddRemoved(rc, removed) ==
    [p \in Paths |-> IF p \in removed THEN rc[p] + 1 ELSE rc[p]]

\* leaving the with block: normally, by an early return, or by an exception
ExitBlock ==
    /\ pc = "in_with"
    /\ \E kind \in {"normal", "return", "raise"} :
         LET r == KeyVaultService__exit__(svc, disk)
         IN  /\ disk' = r.disk
             /\ written' = written \ r.removed
             /\ removeCount' = AddRemoved(removeCount, r.removed)
             /\ last' = [NoCall EXCEPT !.op = "exit", !.kind = kind, !.err = r.err,
                                       !.files = r.removed]
    /\ pc' = "left"
    /\ cleanupCalls' = cleanupCalls + 1
    /\ UNCHANGED <<nextTmp, svc, sm, probe>>

\* service.cleanup()
Cleanup ==
    /\ pc \in {"have", "in_with", "left"}
    /\ cleanupCalls < MaxCleanups
    /\ LET r == KeyVaultService_cleanup(svc, disk)
       IN  /\ disk' = r.disk
           /\ written' = written \ r.removed
           /\ removeCount' = AddRemoved(removeCount, r.removed)
           /\ last' = [NoCall EXCEPT !.op = "cleanup", !.err = r.err,
                                     !.files = r.removed]
    /\ cleanupCalls' = cleanupCalls + 1
    /\ UNCHANGED <<nextTmp, svc, pc, sm, probe>>

\* the caller lets go of the object
Release ==
    /\ pc \in {"have", "left"}
    /\ svc' = NoObj
    /\ pc' = "idle"
    /\ cleanupCalls' = 0
    /\ last' = [NoCall EXCEPT !.op = "release"]
    /\ UNCHANGED <<disk, written, nextTmp, removeCount, sm, probe>>

\* another process removes a file from temporary storage
ExternalRemove ==
    /\ \E p \in disk :
         /\ disk' = disk \ {p}
         /\ written' = written \ {p}
    /\ UNCHANGED <<nextTmp, svc, pc, last, removeCount,
                   cleanupCalls, sm, probe>>

Next ==
    \/ Construct
    \/ Enter
    \/ GetSecret
    \/ ExitBlock
    \/ Cleanup
    \/ Release
    \/ ExternalRemove

Spec == Init /\ [][Next]_vars

\* ------------------------------------------- the naming protocol on its own
Alphabet == {"a", "A", "-"}
RECURSIVE StrsOfLen(_)
StrsOfLen(n) ==
    IF n = 0 THEN {<<>>}
    ELSE {Append(t, c) : t \in StrsOfLen(n - 1), c \in Alphabet}
Strs(n) == UNION {StrsOfLen(k) : k \in 0..n}

\* application names found on the call chain, and scope arguments
AppNames == (Strs(MaxLen) \ {<<>>}) \cup {s_svc}
ScopeArgs == {None} \cup {Some(t) : t \in Strs(MaxLen)} \cup {Some(s_PRD)}
ProbeNames == {<<>>, <<"a">>, s_secret}

\* names a record can carry: the qualified name, every cut of it and every
\* change of one of its characters
Replace(t, i, c) == [j \in 1..Len(t) |-> IF j = i THEN c ELSE t[j]]
NamesNear(full) ==
    {SubSeq(full, 1, k) : k \in 0..Len(full)}
    \cup {Replace(full, i, c) : i \in 1..Len(full), c \in Alphabet}
    \cup {FullName(s_svc, s_PRDX, s_secret), FullName(s_svc, s_prd, s_secret)}

\* Each behaviour builds one manager and makes one call on it: the calls are
\* pure, so a call's outcome depends on the manager and the argument alone.
\* manager = SecretManager(config_scope), called from the application app
NewManager ==
    /\ probe.op = "none"
    /\ \E app \in AppNames, config_scope \in ScopeArgs :
         LET r == SecretManager__init__(
                      <<LibFrame(<<"s","e","c","r","e","t","_","m">>), AppFrame(app)>>,
                      config_scope)
         IN  /\ sm' = r.obj
             /\ probe' = [NoProbe EXCEPT !.op = "new", !.app = app,
                                         !.scope = config_scope, !.err = r.err]
    /\ UNCHANGED lifeVars

\* full_name = manager.prefix + secret_name; manager.load(record named full_name)
Qualify ==
    /\ sm # NoObj
    /\ probe.op = "new"
    /\ \E secret_name \in ProbeNames :
         LET full_name == sm.prefix \o secret_name
         IN  probe' = [NoProbe EXCEPT !.op = "qualify", !.app = probe.app,
                           !.scope = probe.scope, !.arg = secret_name,
                           !.full = full_name,
                           !.ok = SecretManager_load(sm, [name |-> full_name])]
    /\ UNCHANGED <<sm>>
    /\ UNCHANGED lifeVars

\* manager.load(secret_properties)
Load ==
    /\ sm # NoObj
    /\ probe.op = "new"
    /\ \E secret_name \in ProbeNames :
       \E name \in NamesNear(sm.prefix \o secret_name) :
         probe' = [NoProbe EXCEPT !.op = "load", !.app = probe.app,
                       !.scope = probe.scope, !.full = name,
                       !.ok = SecretManager_load(sm, [name |-> name])]
    /\ UNCHANGED <<sm>>
    /\ UNCHANGED lifeVars

\* manager.get_value(secret)
GetValue ==
    /\ sm # NoObj
    /\ probe.op = "new"
    /\ \E secret_name \in ProbeNames :
       \E name \in NamesNear(sm.prefix \o secret_name) :
         probe' = [NoProbe EXCEPT !.op = "get_value", !.app = probe.app,
                       !.scope = probe.scope, !.full = name,
                       !.ret = SecretManager_get_value(sm,
                                   [name |-> name, value |-> s_abc123])]
    /\ UNCHANGED <<sm>>
    /\ UNCHANGED lifeVars

NamingNext ==
    \/ NewManager
    \/ Qualify
    \/ Load
    \/ GetValue

NamingSpec == Init /\ [][NamingNext]_vars

\* ------------------------------------------------------------------ claims
IsService == svc.kind = "KeyVaultService"
PfxPath == svc._cert_wrapper._pfx_path
Prefix == svc.secret_manager.prefix
Mandatory == EnvNames \ {"KEYVAULT_CERT_PASSWORD"}

\* p is a prefix of t, character by character
HasPrefix(t, p) == Len(p) <= Len(t) /\ \A i \in 1..Len(p) : t[i] = p[i]

\* C1: once a with block on a constructed KeyVaultService has been left, in
\* whichever way, the .pfx file of that service is no longer on disk.
C1_ScopedExitRemovesArtifact ==
    pc = "left" => (IsService /\ PfxPath \notin disk)

C1_Witness ==
    /\ pc = "left"
    /\ last.op = "exit"
    /\ last.kind = "raise"
    /\ last.files = {PfxPath}

\* C2: a construction whose thumbprint is not in the identity store fails with
\* the certificate-not-found error, yields no object and leaves no file of its
\* own on disk.
C2_NotFoundLeavesNoFile ==
    (/\ last.op = "init"
     /\ last.stage # "config"
     /\ ~PsCertFound(RemoveSpaces(last.env["KEYVAULT_THUMBPRINT"][1])))
    => (/\ last.err = "RuntimeError: Certificate not found."
        /\ svc = NoObj
        /\ last.files \cap disk = {})

\* C3: a construction that fails after the export succeeded (credential,
\* client or scope step) leaves no file of its own on disk.
C3_FailedConstructionLeavesNoFile ==
    (last.op = "init" /\ last.stage \in {"credential", "client", "scope"})
    => last.files \cap disk = {}

\* C4: after the first cleanup() the .pfx file is gone; no cleanup() raises;
\* a later cleanup() removes nothing; no file is removed by cleanup() twice.
C4_CleanupIdempotent ==
    /\ (IsService /\ cleanupCalls >= 1) => PfxPath \notin disk
    /\ last.op \in {"cleanup", "exit"} => last.err = ""
    /\ (last.op \in {"cleanup", "exit"} /\ cleanupCalls >= 2) => last.files = {}
    /\ \A p \in Paths : removeCount[p] <= 1

C4_Witness ==
    /\ IsService
    /\ last.op = "cleanup"
    /\ cleanupCalls = 2
    /\ removeCount[PfxPath] = 1

\* C5: a get_secret whose remote fetch fails raises nothing, logs, returns
\* None and leaves the service as it was; a get_secret made right after such a
\* failure answers as any other.
C5_FetchFailureIsAbsent ==
    /\ (last.op = "get" /\ last.resp.kind = "error")
       => (last.err = "" /\ last.logged /\ last.ret = None /\ IsService)
    /\ (last.op = "get" /\ last.afterFailure /\ last.resp.kind = "record"
        /\ HasPrefix(last.resp.name, Prefix))
       => last.ret = Some(last.resp.value)

C5_Witness ==
    /\ last.op = "get"
    /\ last.resp.kind = "error"
    /\ last.resp.error = "ClientAuthenticationError"
    /\ last.afterFailure
    /\ last.ret = None

\* C6: get_secret asks for prefix + name and returns the record's value
\* exactly when the record's name starts with the prefix, None otherwise.
C6_ScopedFetch ==
    last.op = "get" =>
        /\ last.req = Prefix \o last.arg
        /\ last.resp.kind = "record" =>
              /\ HasPrefix(last.resp.name, Prefix) => last.ret = Some(last.resp.value)
              /\ ~HasPrefix(last.resp.name, Prefix) => last.ret = None
        /\ (/\ Prefix = FullName(s_svc, s_PRD, <<>>)
            /\ last.arg = s_MySecret
            /\ last.resp.kind = "record"
            /\ last.resp.name = FullName(s_svc, s_PRD, s_MySecret))
           => last.ret = Some(s_abc123)

C6_Witness ==
    /\ last.op = "get"
    /\ Prefix = FullName(s_svc, s_PRD, <<>>)
    /\ last.arg = s_MySecret
    /\ last.req = FullName(s_svc, s_PRD, s_MySecret)
    /\ last.resp.kind = "record"
    /\ last.resp.name = FullName(s_other, s_PRD, s_MySecret)
    /\ last.ret = None

\* C7: the prefix of a manager is appName-configScope-- for the application
\* and scope it was built with, in every state of its life; the name qualified
\* from n is that prefix followed by n, and load accepts it.
C7_QualifyAccepted ==
    /\ sm # NoObj => sm.prefix = FullName(probe.app, probe.scope[1], <<>>)
    /\ probe.op = "qualify" =>
          /\ probe.full = FullName(probe.app, probe.scope[1], probe.arg)
          /\ probe.ok

C7_Witness ==
    /\ probe.op = "qualify"
    /\ probe.app = <<"a", "-">>
    /\ probe.scope = Some(<<"-", "A">>)
    /\ probe.arg = s_secret
    /\ probe.ok

\* C8: load is true, and get_value returns the value, exactly when the name
\* has the prefix as a case-sensitive string prefix.
C8_ExactPrefixOnly ==
    /\ probe.op = "load" => (probe.ok <=> HasPrefix(probe.full, sm.prefix))
    /\ probe.op = "get_value" =>
          (probe.ret = IF HasPrefix(probe.full, sm.prefix) THEN Some(s_abc123)
                       ELSE None)
    /\ (/\ probe.op = "load"
        /\ sm.prefix = FullName(s_svc, s_PRD, <<>>)
        /\ probe.full \in {FullName(s_svc, s_PRDX, s_secret),
                           FullName(s_svc, s_prd, s_secret)})
       => ~probe.ok

C8_Witness ==
    /\ probe.op = "load"
    /\ sm.prefix = FullName(s_svc, s_PRD, <<>>)
    /\ probe.full = FullName(s_svc, s_prd, s_secret)
    /\ ~probe.ok

\* C9: a construction with an empty or omitted scope fails, with ValueError
\* when it gets as far as the SecretManager; no service exists whose manager
\* has an empty scope.
C9_EmptyScopeRejected ==
    /\ (last.op = "init" /\ ~Truthy(last.scope)) =>
          /\ last.err # ""
          /\ svc = NoObj
          /\ (last.stage \notin {"config", "export", "credential", "client"})
             => (last.stage = "scope" /\ last.err = "ValueError")
    /\ IsService =>
          /\ Truthy(svc.secret_manager.config_scope)
          /\ \E k \in 1..Len(Prefix) :
                /\ Prefix[k] = "-"
                /\ SubSeq(Prefix, k + 1, Len(Prefix))
                   = svc.secret_manager.config_scope[1] \o <<"-", "-">>

C9_Witness ==
    /\ last.op = "init"
    /\ last.scope = Some(<<>>)
    /\ last.stage = "scope"
    /\ last.err = "ValueError"

\* C10: a construction with one of the four mandatory values absent fails with
\* the configuration error and creates no file; with the four present, the
\* certificate found, no collaborator failing and a scope given, it succeeds
\* whatever the passphrase is.
C10_MandatoryConfig ==
    /\ (last.op = "init" /\ \E v \in Mandatory : last.env[v] = None) =>
          /\ last.err = "Exception: Missing Key Vault configuration settings."
          /\ last.files = {}
          /\ svc = NoObj
    /\ (/\ last.op = "init"
        /\ \A v \in Mandatory : Truthy(last.env[v])
        /\ PsCertFound(RemoveSpaces(last.env["KEYVAULT_THUMBPRINT"][1]))
        /\ last.fault = "none"
        /\ Truthy(last.scope))
       => (last.err = "" /\ IsService)

C10_Witness ==
    /\ last.op = "init"
    /\ last.env["KEYVAULT_TENANT_ID"] = Some(s_tenant)
    /\ last.env["KEYVAULT_CLIENT_ID"] = Some(s_client)
    /\ last.env["KEYVAULT_THUMBPRINT"] = Some(s_thumbSpaced)
    /\ last.env["KEYVAULT_NAME"] = None
    /\ last.stage = "config"
    /\ disk = {}

====
